---- MODULE Spec2Model ----
(***************************************************************************)
(* The wave-based threaded crawler of src/main.py (crawl_all_classes and   *)
(* crawl_one_class) and the recursive crawler of src/data.py               *)
(* (fetch_ifc_data) as state machines over the same remote site.           *)
(*                                                                         *)
(* A class page is named by a short name; its absolute URL is the pair     *)
(* <<Host, name>> and the relative href of the same page is <<name>>,      *)
(* where the name stands for the path "/uri/buildingsmart/ifc/4.3/class/   *)
(* name".  The remote site is the function children: for every class name  *)
(* the ordered list of the names its page lists under "Child classes".     *)
(***************************************************************************)
EXTENDS Naturals, Sequences, FiniteSets

VARIABLES
    children,     \* the remote site: class name -> ordered list of child names
    visited,      \* main.py:308  set of URLs
    results,      \* main.py:309  list of records, one per results.append
    to_crawl,     \* main.py:310  list of URLs
    futures,      \* main.py:315  the futures submitted so far in the current wave
    unyielded,    \* main.py:317  futures as_completed has not yielded yet
    pc,           \* "submit" inside the comprehension of line 315, "crawl"
                  \* elsewhere in the while loop, "returned" after line 328
    prev,         \* history: the futures of the wave before, as they ended
    fetchedOk,    \* history: URLs for which some crawl_one_class call returned
    fetchRaised,  \* history: URLs for which some crawl_one_class call raised
    wave,         \* history: number of waves submitted so far, up to MaxWaves
    relations,    \* the remote site: class name -> names its page relates to
    failing,      \* the names whose fetch raises, for the deterministic site
    rvisited,     \* data.py:10   set of class codes
    output,       \* data.py:11   list of records, one per output.append
    stack,        \* data.py:17   the active calls of fetch_class, innermost last
    requested     \* history: the class codes requested from the API, in order

\* The state of fetch_ifc_data.
recVars == <<rvisited, output, stack, requested>>

vars == <<children, visited, results, to_crawl, futures, unyielded, pc, prev,
          fetchedOk, fetchRaised, wave, relations, failing, recVars>>

-----------------------------------------------------------------------------
(* Bounds and program constants *)

\* Largest number of child references on the whole site.
MaxEdges == 4

\* Largest value the history counter wave takes; no crawl of a site of
\* Names submits that many waves.
MaxWaves == 6

\* ThreadPoolExecutor(max_workers=8)
MaxWorkers == 8

Names == {"Root", "A", "B", "C"}

Host == "https://identifier.buildingsmart.org"

-----------------------------------------------------------------------------
(* URLs and hrefs *)

AbsUrl(n) == <<Host, n>>

RelHref(n) == <<n>>

\* child_url.startswith("/")
StartsWithSlash(href) == Head(href) # Host

\* The class name a URL points to.
NameOf(url) == url[Len(url)]

\* BASE_URL of main(), the start_url of crawl_all_classes.
StartUrl == AbsUrl("Root")

Range(s) == {s[i] : i \in 1..Len(s)}

\* Every way the page can write the given child names as hrefs: each one
\* either relative ("/uri/...") or absolute ("https://...").
Renderings(names) ==
    {[i \in 1..Len(names) |->
        IF i \in R THEN RelHref(names[i]) ELSE AbsUrl(names[i])] :
     R \in SUBSET (1..Len(names))}

\* Faulty variant: the relative child URL is kept as the page wrote it.
NormalizeChild_KeepsRelative(child_url) == child_url

\* crawl_one_class, lines 296-302: relative child URLs become absolute.
NormalizeChild(child_url) ==
    IF StartsWithSlash(child_url) THEN <<Host>> \o child_url ELSE child_url

ChildUrls(hrefs) == [i \in 1..Len(hrefs) |-> NormalizeChild(hrefs[i])]

\* parse_html, lines 252-256: the relations of the page, as the URIs the
\* relation tables give.
RelationUris(names) == {AbsUrl(n) : n \in names}

-----------------------------------------------------------------------------
(* The sites the crawler is run against *)

RECURSIVE ReachFrom(_, _)
\* The names reachable from the set S through child references of g.
ReachFrom(g, S) ==
    LET T == S \cup UNION {Range(g[n]) : n \in S}
    IN  IF T = S THEN S ELSE ReachFrom(g, T)

Reachable(g) == ReachFrom(g, {"Root"})

NoChildren == [n \in Names |-> <<>>]

\* The names a page of site g may list next: those already on the site and,
\* of the names not yet on it, the first one. The crawler treats A, B and C
\* alike, so a site stands for every site that differs by renaming them.
Listable(g) ==
    LET known == Reachable(g)
    IN  known \cup (IF "A" \notin known THEN {"A"}
                    ELSE IF "B" \notin known THEN {"B"}
                    ELSE {"C"})

RECURSIVE SitesUpTo(_)
\* Every site with at most k child references, each on a page reachable
\* from Root. A page that is not reachable is never fetched: its content
\* cannot be observed, so the empty page stands for all it could hold.
SitesUpTo(k) ==
    IF k = 0 THEN {NoChildren}
    ELSE LET S == SitesUpTo(k - 1)
         IN  S \cup {[t[1] EXCEPT ![t[2]] = Append(t[1][t[2]], t[3])] :
                        t \in {u \in S \X Names \X Names :
                                  /\ u[2] \in Reachable(u[1])
                                  /\ u[3] \in Listable(u[1])}}

Sites == SitesUpTo(MaxEdges)

\* A site whose pages show no relations.
NoRelations == [n \in Names |-> {}]

-----------------------------------------------------------------------------
(* Helpers over the futures of a wave *)

FutIdx == 1..Len(futures)

RunningCount == Cardinality({i \in FutIdx : futures[i].st = "running"})

Finished(i) == futures[i].st \in {"ok", "raised"}

RECURSIVE AppendUnvisited_Inverted(_, _, _)
\* Faulty variant: the test of line 324 is inverted (if child_url in visited).
AppendUnvisited_Inverted(tc, child_urls, vis) ==
    IF child_urls = <<>> THEN tc
    ELSE AppendUnvisited_Inverted(
            IF Head(child_urls) \in vis THEN Append(tc, Head(child_urls)) ELSE tc,
            Tail(child_urls), vis)

RECURSIVE AppendUnvisited(_, _, _)
\* Lines 323-325: for child_url in child_urls: if child_url not in visited:
\* to_crawl.append(child_url)
AppendUnvisited(tc, child_urls, vis) ==
    IF child_urls = <<>> THEN tc
    ELSE AppendUnvisited(
            IF Head(child_urls) \notin vis THEN Append(tc, Head(child_urls)) ELSE tc,
            Tail(child_urls), vis)

\* Faulty variant: the URLs of the wave that just ended are left out as well.
Submitted_MinusWave(tc, vis) ==
    LET ended == IF pc = "submit" THEN prev ELSE futures
        kept == SelectSeq(tc, LAMBDA u :
                    u \notin vis /\ u \notin {ended[i].url : i \in 1..Len(ended)})
    IN  [i \in 1..Len(kept) |-> [url |-> kept[i], st |-> "queued", child_urls |-> <<>>,
                                  relations |-> {}]]

\* Faulty variant: the "if url not in visited" of line 315 is missing.
Submitted_NoFilter(tc, vis) ==
    [i \in 1..Len(tc) |-> [url |-> tc[i], st |-> "queued", child_urls |-> <<>>,
                                  relations |-> {}]]

\* Line 315: one future per element of to_crawl that is not in visited.
Submitted(tc, vis) ==
    LET kept == SelectSeq(tc, LAMBDA u : u \notin vis)
    IN  [i \in 1..Len(kept) |-> [url |-> kept[i], st |-> "queued", child_urls |-> <<>>,
                                  relations |-> {}]]

-----------------------------------------------------------------------------
(* Initial state: lines 308-310 *)

\* crawl_all_classes has set up its locals, fetch_ifc_data is not running.
CrawlStart ==
    /\ visited = {}
    /\ results = <<>>
    /\ to_crawl = <<StartUrl>>
    /\ futures = <<>>
    /\ unyielded = {}
    /\ pc = "crawl"
    /\ prev = <<>>
    /\ fetchedOk = {}
    /\ fetchRaised = {}
    /\ wave = 0
    /\ rvisited = {}
    /\ output = <<>>
    /\ stack = <<>>
    /\ requested = <<>>

Init ==
    /\ children \in Sites
    /\ relations = NoRelations
    /\ failing = {}
    /\ CrawlStart

-----------------------------------------------------------------------------
(* Coordinating thread *)

\* The while test of line 313 has just succeeded: the loop over
\* as_completed of the wave before has ended and to_crawl holds a URL.
WaveStarts ==
    /\ pc = "crawl"
    /\ unyielded = {}
    /\ to_crawl # <<>>

\* The number of futures the comprehension of line 315 has created so far.
SubmittedSoFar == IF pc = "submit" THEN Len(futures) ELSE 0

\* Faulty variant: the next wave is submitted as soon as to_crawl holds a
\* URL, without waiting for as_completed to run out.
Submit_NoBarrier ==
    LET S == Submitted(to_crawl, visited)
    IN  /\ (pc = "crawl" /\ to_crawl # <<>>) \/ pc = "submit"
        /\ SubmittedSoFar < Len(S)
        /\ futures' = IF pc = "submit"
                         THEN Append(futures, S[SubmittedSoFar + 1])
                         ELSE <<S[1]>>
        /\ unyielded' = 1..(SubmittedSoFar + 1)
        /\ pc' = "submit"
        /\ prev' = IF pc = "submit" THEN prev ELSE futures
        /\ wave' = IF pc = "submit" \/ wave >= MaxWaves THEN wave ELSE wave + 1
        /\ UNCHANGED <<recVars, relations, failing, children, visited, results,
                       to_crawl, fetchedOk, fetchRaised>>

\* Line 315, one executor.submit call of the comprehension: the next
\* unvisited URL of to_crawl gets a future, which the pool may start at
\* once. The first call of a wave follows the while test; to_crawl is still
\* as it was and visited does not change until as_completed runs.
Submit ==
    LET S == Submitted(to_crawl, visited)
    IN  /\ WaveStarts \/ pc = "submit"
        /\ SubmittedSoFar < Len(S)
        /\ futures' = IF pc = "submit"
                         THEN Append(futures, S[SubmittedSoFar + 1])
                         ELSE <<S[1]>>
        /\ unyielded' = 1..(SubmittedSoFar + 1)
        /\ pc' = "submit"
        /\ prev' = IF pc = "submit" THEN prev ELSE futures
        /\ wave' = IF pc = "submit" \/ wave >= MaxWaves THEN wave ELSE wave + 1
        /\ UNCHANGED <<recVars, relations, failing, children, visited, results,
                       to_crawl, fetchedOk, fetchRaised>>

\* Faulty variant: line 316 (to_crawl = []) is missing.
ResetToCrawl_Keeps ==
    LET S == Submitted(to_crawl, visited)
    IN  \/ /\ pc = "submit"
           /\ Len(futures) = Len(S)
           /\ pc' = "crawl"
           /\ UNCHANGED <<recVars, relations, failing, children, visited, results,
                          to_crawl, futures, unyielded, prev, wave, fetchedOk,
                          fetchRaised>>
        \/ /\ WaveStarts
           /\ S = <<>>
           /\ futures' = <<>>
           /\ prev' = futures
           /\ wave' = IF wave < MaxWaves THEN wave + 1 ELSE wave
           /\ UNCHANGED <<recVars, relations, failing, children, visited, results,
                          to_crawl, unyielded, pc, fetchedOk, fetchRaised>>

\* Line 316: the comprehension of line 315 has submitted every unvisited
\* URL of to_crawl and the dict is bound to futures; to_crawl is reset and
\* the loop over as_completed starts. When every URL of to_crawl is visited
\* the comprehension submits nothing and futures is the empty dict.
ResetToCrawl ==
    LET S == Submitted(to_crawl, visited)
    IN  \/ /\ pc = "submit"
           /\ Len(futures) = Len(S)
           /\ to_crawl' = <<>>
           /\ pc' = "crawl"
           /\ UNCHANGED <<recVars, relations, failing, children, visited, results,
                          futures, unyielded, prev, wave, fetchedOk, fetchRaised>>
        \/ /\ WaveStarts
           /\ S = <<>>
           /\ futures' = <<>>
           /\ to_crawl' = <<>>
           /\ prev' = futures
           /\ wave' = IF wave < MaxWaves THEN wave + 1 ELSE wave
           /\ UNCHANGED <<recVars, relations, failing, children, visited, results,
                          unyielded, pc, fetchedOk, fetchRaised>>

\* Faulty variant: the relation targets of the page are queued like its
\* child classes.
ProcessOk_FollowsRelations(i) ==
    /\ pc = "crawl"
    /\ i \in unyielded
    /\ futures[i].st = "ok"
    /\ results' = Append(results, [url |-> futures[i].url,
                                    relations |-> futures[i].relations])
    /\ visited' = visited \cup {futures[i].url}
    /\ LET S == futures[i].relations
           targets == CHOOSE q \in [1..Cardinality(S) -> S] : Range(q) = S
       IN  to_crawl' = AppendUnvisited(
                         AppendUnvisited(to_crawl, futures[i].child_urls, visited'),
                         targets, visited')
    /\ unyielded' = unyielded \ {i}
    /\ UNCHANGED <<recVars, relations, failing, wave, children, futures, pc, prev,
                   fetchedOk, fetchRaised>>

\* Lines 317-325: as_completed yields a finished future whose result() returns.
ProcessOk(i) ==
    /\ pc = "crawl"
    /\ i \in unyielded
    /\ futures[i].st = "ok"
    /\ results' = Append(results, [url |-> futures[i].url,
                                    relations |-> futures[i].relations])
    /\ visited' = visited \cup {futures[i].url}
    /\ to_crawl' = AppendUnvisited(to_crawl, futures[i].child_urls, visited')
    /\ unyielded' = unyielded \ {i}
    /\ UNCHANGED <<recVars, relations, failing, wave, children, futures, pc, prev, fetchedOk, fetchRaised>>

\* Faulty variant: the URL is marked visited although its fetch raised.
ProcessRaised_MarksVisited(i) ==
    /\ pc = "crawl"
    /\ i \in unyielded
    /\ futures[i].st = "raised"
    /\ visited' = visited \cup {futures[i].url}
    /\ unyielded' = unyielded \ {i}
    /\ UNCHANGED <<recVars, relations, failing, wave, children, results, to_crawl, futures, pc, prev,
                   fetchedOk, fetchRaised>>

\* Faulty variant: no try/except around future.result(): the exception leaves
\* crawl_all_classes.
ProcessRaised_Propagates(i) ==
    /\ pc = "crawl"
    /\ i \in unyielded
    /\ futures[i].st = "raised"
    /\ pc' = "aborted"
    /\ unyielded' = unyielded \ {i}
    /\ UNCHANGED <<recVars, relations, failing, wave, children, visited, results, to_crawl, futures, prev,
                   fetchedOk, fetchRaised>>

\* Lines 317-320, 326-327: as_completed yields a finished future whose
\* result() raises; the error is printed.
ProcessRaised(i) ==
    /\ pc = "crawl"
    /\ i \in unyielded
    /\ futures[i].st = "raised"
    /\ unyielded' = unyielded \ {i}
    /\ UNCHANGED <<recVars, relations, failing, wave, children, visited, results, to_crawl, futures, pc, prev,
                   fetchedOk, fetchRaised>>

\* Lines 313, 328: the while test fails, the executor shuts down, results is
\* returned.
Return ==
    /\ pc = "crawl"
    /\ unyielded = {}
    /\ to_crawl = <<>>
    /\ pc' = "returned"
    /\ UNCHANGED <<recVars, relations, failing, wave, children, visited, results, to_crawl, futures, unyielded,
                   prev, fetchedOk, fetchRaised>>

\* main, lines 332-335: what the run reports once crawl_all_classes has
\* returned: the number of saved classes. (Line 327 prints one line per
\* fetch that raised while the crawl runs; nothing counts them.)
Report == [saved |-> Len(results)]

-----------------------------------------------------------------------------
(* Worker threads of the pool *)

\* Faulty variant: a queued work item starts whether or not a worker is
\* free.
StartFetch_NoLimit(i) ==
    /\ i \in FutIdx
    /\ futures[i].st = "queued"
    /\ \A j \in 1..(i-1) : futures[j].st # "queued"
    /\ futures' = [futures EXCEPT ![i].st = "running"]
    /\ UNCHANGED <<recVars, relations, failing, wave, children, visited, results, to_crawl, unyielded, pc, prev,
                   fetchedOk, fetchRaised>>

\* A free worker takes the oldest queued work item.
StartFetch(i) ==
    /\ i \in FutIdx
    /\ futures[i].st = "queued"
    /\ \A j \in 1..(i-1) : futures[j].st # "queued"
    /\ RunningCount < MaxWorkers
    /\ futures' = [futures EXCEPT ![i].st = "running"]
    /\ UNCHANGED <<recVars, relations, failing, wave, children, visited, results, to_crawl, unyielded, pc, prev,
                   fetchedOk, fetchRaised>>

\* Faulty variant: the worker itself records its page in results and
\* visited before it returns.
FetchReturns_Records(i) ==
    /\ i \in FutIdx
    /\ futures[i].st = "running"
    /\ \E hrefs \in Renderings(children[NameOf(futures[i].url)]) :
          futures' = [futures EXCEPT
                         ![i].st = "ok",
                         ![i].child_urls = ChildUrls(hrefs),
                         ![i].relations = RelationUris(relations[NameOf(futures[i].url)])]
    /\ fetchedOk' = fetchedOk \cup {futures[i].url}
    /\ results' = Append(results, [url |-> futures[i].url,
                                    relations |-> RelationUris(relations[NameOf(futures[i].url)])])
    /\ visited' = visited \cup {futures[i].url}
    /\ UNCHANGED <<recVars, relations, failing, wave, children, to_crawl, unyielded, pc, prev,
                   fetchRaised>>

\* crawl_one_class returns (data, child_urls), lines 266-302.
FetchReturns(i) ==
    /\ i \in FutIdx
    /\ futures[i].st = "running"
    /\ \E hrefs \in Renderings(children[NameOf(futures[i].url)]) :
          futures' = [futures EXCEPT
                         ![i].st = "ok",
                         ![i].child_urls = ChildUrls(hrefs),
                         ![i].relations = RelationUris(relations[NameOf(futures[i].url)])]
    /\ fetchedOk' = fetchedOk \cup {futures[i].url}
    /\ UNCHANGED <<recVars, relations, failing, wave, children, visited, results, to_crawl, unyielded, pc, prev,
                   fetchRaised>>

\* crawl_one_class raises (browser, network or parse error).
FetchRaises(i) ==
    /\ i \in FutIdx
    /\ futures[i].st = "running"
    /\ futures' = [futures EXCEPT ![i].st = "raised"]
    /\ fetchRaised' = fetchRaised \cup {futures[i].url}
    /\ UNCHANGED <<recVars, relations, failing, wave, children, visited, results, to_crawl, unyielded, pc, prev,
                   fetchedOk>>

-----------------------------------------------------------------------------

Next ==
    \/ Submit
    \/ ResetToCrawl
    \/ Return
    \/ \E i \in FutIdx : ProcessOk(i)
    \/ \E i \in FutIdx : ProcessRaised(i)
    \/ \E i \in FutIdx : StartFetch(i)
    \/ \E i \in FutIdx : FetchReturns(i)
    \/ \E i \in FutIdx : FetchRaises(i)

Spec == Init /\ [][Next]_vars

\* Every crawl_one_class call returns or raises, the pool runs its work
\* items and the coordinating thread keeps running.
FairSpec == Spec /\ WF_vars(Next)

-----------------------------------------------------------------------------
(* The crawler against a site whose pages fail deterministically *)

\* The fetch of a page fails every time or never: failing holds the names
\* of the pages that fail. A page that is not reachable is never fetched.
DetInit ==
    /\ children \in Sites
    /\ relations = NoRelations
    /\ failing \in SUBSET Reachable(children)
    /\ CrawlStart

DetFetchReturns(i) ==
    /\ i \in FutIdx
    /\ NameOf(futures[i].url) \notin failing
    /\ FetchReturns(i)

DetFetchRaises(i) ==
    /\ i \in FutIdx
    /\ NameOf(futures[i].url) \in failing
    /\ FetchRaises(i)

DetNext ==
    \/ Submit
    \/ ResetToCrawl
    \/ Return
    \/ \E i \in FutIdx : ProcessOk(i)
    \/ \E i \in FutIdx : ProcessRaised(i)
    \/ \E i \in FutIdx : StartFetch(i)
    \/ \E i \in FutIdx : DetFetchReturns(i)
    \/ \E i \in FutIdx : DetFetchRaises(i)

DetSpec == DetInit /\ [][DetNext]_vars

-----------------------------------------------------------------------------
(* The crawler against a site whose pages show relations *)

\* Largest number of child references on a site with relations.
MaxRelEdges == 3

\* The sites of g's pages with at most one relation on them: a page that
\* is fetched relates to one class, a child of the site or not.
RelationMaps(g) ==
    {NoRelations} \cup
    {[n \in Names |-> IF n = p THEN {t} ELSE {}] :
        <<p, t>> \in Reachable(g) \X Names}

RelInit ==
    /\ children \in SitesUpTo(MaxRelEdges)
    /\ relations \in RelationMaps(children)
    /\ failing = {}
    /\ CrawlStart

RelSpec == RelInit /\ [][Next]_vars

-----------------------------------------------------------------------------
(* The crawler against a page with more child references than workers *)

\* The number of child references of the start page: one more than the
\* pool has workers.
PoolWidth == MaxWorkers + 1

\* The start page lists PoolWidth child references, to class A and last to
\* class B; B lists A, A lists nothing.
WideSite ==
    [n \in Names |->
        CASE n = "Root" -> [k \in 1..PoolWidth |-> IF k < PoolWidth THEN "A" ELSE "B"]
          [] n = "B"    -> <<"A">>
          [] OTHER      -> <<>>]

\* Every fetch of a class in failing raises, every other fetch returns: the
\* page of A fails every time or never.
PoolInit ==
    /\ children = WideSite
    /\ relations = NoRelations
    /\ failing \in SUBSET {"A"}
    /\ CrawlStart

PoolSpec == PoolInit /\ [][DetNext]_vars

\* Fairness: a worker that can take or finish a work item does, and the
\* as_completed loop consumes a finished future.
PoolFairSpec == PoolSpec /\ WF_vars(DetNext)

-----------------------------------------------------------------------------
(* The recursive crawler: fetch_ifc_data of src/data.py *)

\* The state of crawl_all_classes and the site.
crawlVars == <<children, visited, results, to_crawl, futures, unyielded, pc,
               prev, fetchedOk, fetchRaised, wave, relations, failing>>

\* start_class of fetch_ifc_data ("IfcRoot").
StartClass == "Root"

\* A call of fetch_class(code): at its first line ("call") or in the loop
\* over the children of its class ("iter", idx children done).
Frame(code, st, idx) == [code |-> code, st |-> st, idx |-> idx]

Top == stack[Len(stack)]

Pop == SubSeq(stack, 1, Len(stack) - 1)

\* Lines 9-11 and 111: visited and output are empty and fetch_class is
\* called on the start class; crawl_all_classes is not running.
RecInit ==
    /\ children \in Sites
    /\ relations = NoRelations
    /\ failing = {}
    /\ visited = {}
    /\ results = <<>>
    /\ to_crawl = <<>>
    /\ futures = <<>>
    /\ unyielded = {}
    /\ pc = "idle"
    /\ prev = <<>>
    /\ fetchedOk = {}
    /\ fetchRaised = {}
    /\ wave = 0
    /\ rvisited = {}
    /\ output = <<>>
    /\ stack = <<Frame(StartClass, "call", 0)>>
    /\ requested = <<>>

\* Lines 18-20: the class is already in visited, fetch_class returns.
RecSkip ==
    /\ stack # <<>>
    /\ Top.st = "call"
    /\ Top.code \in rvisited
    /\ stack' = Pop
    /\ UNCHANGED <<crawlVars, rvisited, output, requested>>

\* Lines 22-100: the class is marked visited, the three requests succeed,
\* the record is appended to output; the loop over the children starts.
RecFetchOk ==
    /\ stack # <<>>
    /\ Top.st = "call"
    /\ Top.code \notin rvisited
    /\ rvisited' = rvisited \cup {Top.code}
    /\ requested' = Append(requested, [code |-> Top.code, ok |-> TRUE])
    /\ output' = Append(output, [code |-> Top.code, child_classes |-> children[Top.code]])
    /\ stack' = [stack EXCEPT ![Len(stack)] = Frame(Top.code, "iter", 0)]
    /\ UNCHANGED crawlVars

\* Faulty variant: the class is marked visited only when its requests
\* succeed, as crawl_all_classes does.
RecFetchFails_NotVisited ==
    /\ stack # <<>>
    /\ Top.st = "call"
    /\ Top.code \notin rvisited
    /\ requested' = Append(requested, [code |-> Top.code, ok |-> FALSE])
    /\ stack' = Pop
    /\ UNCHANGED <<crawlVars, rvisited, output>>

\* Lines 22-46 and 108-109: the class is marked visited, one of the three
\* requests raises RequestException, the error is printed, fetch_class
\* returns.
RecFetchFails ==
    /\ stack # <<>>
    /\ Top.st = "call"
    /\ Top.code \notin rvisited
    /\ rvisited' = rvisited \cup {Top.code}
    /\ requested' = Append(requested, [code |-> Top.code, ok |-> FALSE])
    /\ stack' = Pop
    /\ UNCHANGED <<crawlVars, output>>

\* Lines 103-104: fetch_class is called on the next child.
RecRecurse ==
    /\ stack # <<>>
    /\ Top.st = "iter"
    /\ Top.idx < Len(children[Top.code])
    /\ stack' = Append([stack EXCEPT ![Len(stack)].idx = Top.idx + 1],
                       Frame(children[Top.code][Top.idx + 1], "call", 0))
    /\ UNCHANGED <<crawlVars, rvisited, output, requested>>

\* Line 106: the loop over the children is over, fetch_class returns (the
\* outermost call returns to line 112).
RecReturn ==
    /\ stack # <<>>
    /\ Top.st = "iter"
    /\ Top.idx = Len(children[Top.code])
    /\ stack' = Pop
    /\ UNCHANGED <<crawlVars, rvisited, output, requested>>

RecNext ==
    \/ RecSkip
    \/ RecFetchOk
    \/ RecFetchFails
    \/ RecRecurse
    \/ RecReturn

RecSpec == RecInit /\ [][RecNext]_vars

\* Every request returns or raises and the thread keeps running.
RecFairSpec == RecSpec /\ WF_vars(RecNext)

-----------------------------------------------------------------------------
(* Vocabulary of the properties *)

UrlsOf(fs) == {fs[i].url : i \in 1..Len(fs)}

ResultUrls == UrlsOf(results)

\* Number of futures of fs that fetch url u.
FetchCount(fs, u) == Cardinality({i \in 1..Len(fs) : fs[i].url = u})

\* The child URLs returned by the successful fetches of fs.
ChildUrlsOfOk(fs) ==
    UNION {Range(fs[i].child_urls) : i \in {j \in 1..Len(fs) : fs[j].st = "ok"}}

\* The step that ends the submission of a wave: the only one that empties
\* to_crawl. After it futures holds the whole wave and prev the wave before.
DispatchStep == to_crawl # <<>> /\ to_crawl' = <<>>

\* URL u was fetched in the wave fs and none of its fetches returned.
FailedIn(fs, u) ==
    /\ \E i \in 1..Len(fs) : fs[i].url = u /\ fs[i].st = "raised"
    /\ \A i \in 1..Len(fs) : fs[i].url = u => fs[i].st = "raised"

\* Some successful fetch of the wave fs lists u as a child.
ListedIn(fs, u) == u \in ChildUrlsOfOk(fs)

-----------------------------------------------------------------------------
(* C1 *)

\* C1: results holds at most one record per URL: no URL is appended to
\* results twice.
C1_NoDuplicateRecord ==
    \A i, j \in 1..Len(results) : results[i].url = results[j].url => i = j

-----------------------------------------------------------------------------
(* C2 *)

\* C2: when the wave has been submitted, every unvisited URL of to_crawl, also one
\* that to_crawl holds more than once, gets exactly one fetch.
C2_OneFetchPerPendingUrl ==
    [][DispatchStep =>
         \A u \in Range(to_crawl) \ visited : FetchCount(futures', u) = 1]_vars

-----------------------------------------------------------------------------
(* C3 *)

\* Root -> [A, B], A -> [C], B -> [], C -> [Root]
CycleSite ==
    [n \in Names |->
        CASE n = "Root" -> <<"A", "B">>
          [] n = "A"    -> <<"C">>
          [] n = "B"    -> <<>>
          [] n = "C"    -> <<"Root">>]

AllUrls == {AbsUrl(n) : n \in Names}

\* C3: on the cyclic site the crawl returns, and when no fetch raised the
\* returned results hold Root, A, B and C, each exactly once.
C3_CycleSafety ==
    (children = CycleSite) =>
        <>(/\ pc = "returned"
           /\ (fetchRaised = {} => ResultUrls = AllUrls /\ Len(results) = 4))

C3_Witness ==
    /\ children = CycleSite
    /\ pc = "returned"
    /\ fetchRaised = {}
    /\ AbsUrl("Root") \in ChildUrlsOfOk(futures)
    /\ Len(results) = 4

-----------------------------------------------------------------------------
(* C4 *)

\* C4: a URL whose fetch raised in wave k and that a successful fetch of
\* wave k lists as a child is fetched again in wave k+1.
C4_RetryAfterFailure ==
    [][DispatchStep =>
         \A u \in UrlsOf(prev') :
            FailedIn(prev', u) /\ ListedIn(prev', u) => u \in UrlsOf(futures')]_vars

C4_Witness ==
    \E u \in UrlsOf(prev) :
        /\ FailedIn(prev, u)
        /\ ListedIn(prev, u)
        /\ u \in UrlsOf(futures)

-----------------------------------------------------------------------------
(* C5 *)

\* C5 as stated: the URLs of wave k+1 are the children of wave k's
\* successful fetches, minus visited, minus every URL of wave k.
C5_NextWaveExcludesWholeWave ==
    [][DispatchStep /\ prev' # <<>> =>
         UrlsOf(futures') = (ChildUrlsOfOk(prev') \ visited) \ UrlsOf(prev')]_vars

\* C5 amended: the URLs of wave k+1 are the children of wave k's successful
\* fetches minus visited; a URL of wave k whose fetch raised is not left out.
C5_NextWaveIsUnvisitedChildren ==
    [][DispatchStep /\ prev' # <<>> =>
         UrlsOf(futures') = ChildUrlsOfOk(prev') \ visited]_vars

\* A wave was built from the wave before: one child was dropped because it
\* is visited, another was submitted.
C5_Witness ==
    /\ prev # <<>>
    /\ futures # <<>>
    /\ UrlsOf(futures) \subseteq ChildUrlsOfOk(prev)
    /\ \E c \in ChildUrlsOfOk(prev) : c \in UrlsOf(prev) /\ c \notin UrlsOf(futures)

-----------------------------------------------------------------------------
(* C6 *)

\* The coordinating thread consumes a future whose result() raises.
RaisedStep == \E i \in unyielded \ unyielded' : futures[i].st = "raised"

\* C6: visited never shrinks, holds only URLs for which a fetch returned,
\* and consuming a fetch that raised adds nothing to it.
C6_VisitedOnlySuccesses ==
    [][/\ visited \subseteq visited'
       /\ visited' \subseteq fetchedOk'
       /\ (RaisedStep => visited' = visited)]_vars

\* A failure has been consumed next to a success: the failed URL is not in
\* visited, the successful one is.
C6_Witness ==
    \E i, j \in FutIdx \ unyielded :
        /\ futures[i].st = "raised"
        /\ futures[i].url \notin visited
        /\ futures[j].st = "ok"
        /\ futures[j].url \in visited

-----------------------------------------------------------------------------
(* C7 *)

\* C7: the crawl eventually computes an empty next wave and returns.
C7_Terminates == <>(pc = "returned")

\* The crawl has returned on a site with a cycle after a URL raised in two
\* waves in a row, having been listed again by a successful fetch.
C7_Witness ==
    /\ pc = "returned"
    /\ \E u \in UrlsOf(prev) :
          FailedIn(prev, u) /\ ListedIn(prev, u) /\ FailedIn(futures, u)
    /\ \E n \in Names : n \in Range(children[n])

-----------------------------------------------------------------------------
(* C8 *)

\* A step that submits a fetch: a queued future appears.
SubmitStep ==
    \E i \in 1..Len(futures') :
        /\ futures'[i].st = "queued"
        /\ (i \notin FutIdx \/ futures[i] # futures'[i])

\* C8: no fetch of the next wave is submitted until every fetch of the
\* current wave has finished and its outcome has been consumed: the first
\* submission of a wave finds every future finished and yielded.
C8_WaveBarrier ==
    [][SubmitStep /\ pc # "submit" =>
         unyielded = {} /\ \A i \in FutIdx : Finished(i)]_vars

\* A wave is being submitted after a wave of several fetches ended.
C8_Witness ==
    /\ pc = "submit"
    /\ Len(prev) >= 2
    /\ \A i \in 1..Len(prev) : prev[i].st \in {"ok", "raised"}
    /\ \E i \in FutIdx : futures[i].st = "queued"

-----------------------------------------------------------------------------
(* C9 *)

\* The outcome of some fetch that raised has been consumed in this wave.
RaisedConsumed == \E i \in FutIdx \ unyielded : futures[i].st = "raised"

\* Every consumed successful fetch of the wave is recorded in results and
\* visited and its children are in to_crawl unless visited.
SuccessesRecorded ==
    \A j \in FutIdx \ unyielded :
        futures[j].st = "ok" =>
            /\ futures[j].url \in visited
            /\ futures[j].url \in ResultUrls
            /\ Range(futures[j].child_urls) \subseteq Range(to_crawl) \cup visited

\* C9: after a fetch of the wave raised, the crawl has not been left by an
\* exception, the successes of the wave are recorded with their children
\* offered to the next wave, and the wave runs on until every fetch
\* submitted in it has yielded its outcome.
C9_FailureIsContained ==
    /\ [](RaisedConsumed => pc \in {"crawl", "returned"} /\ SuccessesRecorded)
    /\ (RaisedConsumed ~> (unyielded = {} /\ \A i \in FutIdx : Finished(i)))

\* The wave ended with a failure and a success whose child is pending.
C9_Witness ==
    /\ pc = "crawl"
    /\ unyielded = {}
    /\ RaisedConsumed
    /\ \E j \in FutIdx :
          /\ futures[j].st = "ok"
          /\ futures[j].url \in ResultUrls
          /\ \E c \in Range(futures[j].child_urls) : c \in Range(to_crawl)

-----------------------------------------------------------------------------
(* C10 *)

ReachableUrls == {AbsUrl(n) : n \in Reachable(children)}

\* C10: when no fetch raised, the returned results hold exactly the URLs
\* reachable from the start URL through child references.
C10_CompleteWhenNoFailure ==
    pc = "returned" /\ fetchRaised = {} => ResultUrls = ReachableUrls

\* A crawl without failure has returned from a site on which three pages
\* are reachable, one of them listed by two pages, and one is not.
C10_Witness ==
    /\ pc = "returned"
    /\ fetchRaised = {}
    /\ Cardinality(Reachable(children)) = 3
    /\ \E n, m \in Names : n # m /\ Range(children[n]) \cap Range(children[m]) # {}

-----------------------------------------------------------------------------
(* C11 *)

\* The URLs of the pages the names of S list as children.
ChildUrlsOfNames(g, S) == {AbsUrl(c) : c \in UNION {Range(g[n]) : n \in S}}

RECURSIVE RefWaves(_, _, _, _)
\* The waves of URL sets a crawl of site g makes, from the wave W on with V
\* visited, when exactly the pages of F fail: computed without any order.
RefWaves(g, F, W, V) ==
    IF W = {} THEN <<>>
    ELSE LET ok == {u \in W : NameOf(u) \notin F}
             V2 == V \cup ok
         IN  <<W>> \o RefWaves(g, F, ChildUrlsOfNames(g, {NameOf(u) : u \in ok}) \ V2, V2)

RefResult(g, F) == {AbsUrl(n) : n \in ReachFrom([m \in Names |->
                        IF m \in F THEN <<>> ELSE g[m]], {"Root"}) \ F}

\* C11: with a fetch whose outcome is a fixed function of the URL, the set
\* of URLs of every wave, once submitted, and the set of URLs of the
\* returned results are those of the order-free reference, whatever order
\* the fetches end in.
C11_OrderIndependent ==
    LET R == RefWaves(children, failing, {StartUrl}, {})
    IN  /\ wave >= 1 /\ pc # "submit" =>
             IF wave <= Len(R) THEN UrlsOf(futures) = R[wave]
             ELSE futures = <<>>
        /\ pc = "returned" => ResultUrls = RefResult(children, failing)

\* A crawl of three waves or more has returned; a failing page was fetched
\* in its last two waves, next to a page that succeeded.
C11_Witness ==
    LET R == RefWaves(children, failing, {StartUrl}, {})
    IN  /\ pc = "returned"
        /\ Len(R) >= 3
        /\ wave = Len(R)
        /\ \E u \in UrlsOf(prev) \cap UrlsOf(futures) : u \in fetchRaised
        /\ \E i \in 1..Len(prev) : prev[i].st = "ok"

-----------------------------------------------------------------------------
(* C12 *)

\* C12: when the fetch of the start URL raised, the crawl does not complete
\* normally with a result.
C12_StartFailureAborts ==
    StartUrl \in fetchRaised /\ StartUrl \notin fetchedOk => pc # "returned"

-----------------------------------------------------------------------------
(* C13 *)

\* C13: at return, a URL whose fetch raised and never returned is absent
\* from results and is counted in a failure count of the report.
C13_FailureCounted ==
    pc = "returned" =>
        \A u \in fetchRaised \ fetchedOk :
            /\ u \notin ResultUrls
            /\ "failed" \in DOMAIN Report
            /\ Report.failed >= 1

-----------------------------------------------------------------------------
(* C14 *)

\* C14: once a URL is in visited, no fetch is submitted for it and no
\* record of it is appended to results.
C14_VisitedNeverProcessedAgain ==
    [][\A u \in visited :
          /\ SubmitStep => u \notin UrlsOf(futures')
          /\ Len(results') > Len(results) => results'[Len(results')].url # u]_vars

-----------------------------------------------------------------------------
(* C15 *)

\* C15: in fetch_ifc_data a class code whose requests raised is not in the
\* visited set.
C15_FailedLeftUnvisited ==
    \A k \in 1..Len(requested) :
        ~requested[k].ok => requested[k].code \notin rvisited

-----------------------------------------------------------------------------
(* C16 *)

\* C16: every URL of wave k+1 is a child listed by a fetch that succeeded
\* in wave k: no URL is carried over from an earlier wave and a relation
\* target that is not such a child does not enter the wave.
C16_OnlyChildrenOfLastWave ==
    [][DispatchStep /\ prev' # <<>> =>
         UrlsOf(futures') \subseteq ChildUrlsOfOk(prev')]_vars

\* A wave was built from a wave in which one fetch raised and one returned
\* a child and a relation: the relation target, unvisited, and the URL
\* that raised are not in the new wave.
C16_Witness ==
    /\ futures # <<>>
    /\ \E i, j \in 1..Len(prev) :
          /\ prev[i].st = "raised"
          /\ prev[i].url \notin UrlsOf(futures)
          /\ prev[j].st = "ok"
          /\ prev[j].child_urls # <<>>
          /\ \E r \in prev[j].relations :
                r \notin visited /\ r \notin UrlsOf(futures)

-----------------------------------------------------------------------------
(* C19 *)

\* The codes fetch_class sent requests for, one entry per fetch.
RequestedCodes == [k \in 1..Len(requested) |-> requested[k].code]

\* The codes of the records of output, in order.
OutputCodes == [k \in 1..Len(output) |-> output[k].code]

NoRepeat(q) == \A i, j \in 1..Len(q) : q[i] = q[j] => i = j

\* The number of places where the records of output list code c as a child.
RECURSIVE ListingsOf(_, _)
ListingsOf(c, k) ==
    IF k = 0 THEN 0
    ELSE ListingsOf(c, k - 1) +
         Cardinality({i \in 1..Len(output[k].child_classes) :
                        output[k].child_classes[i] = c})

\* C19: in fetch_ifc_data, whatever the child graph and whichever fetches
\* fail, no class code is fetched twice, no class code has two records in
\* output, and the traversal ends.
C19_RecursiveFetchOnce ==
    /\ [](NoRepeat(RequestedCodes) /\ NoRepeat(OutputCodes))
    /\ <>(stack = <<>>)

\* The traversal has ended with two records or more, and a class whose
\* fetch failed is listed as a child in two places.
C19_Witness ==
    /\ stack = <<>>
    /\ Len(output) >= 2
    /\ \E k \in 1..Len(requested) :
          /\ ~requested[k].ok
          /\ ListingsOf(requested[k].code, Len(output)) >= 2

-----------------------------------------------------------------------------
(* C20 *)

\* Every future of the wave has been consumed by the as_completed loop, or
\* crawl_all_classes has returned.
WaveBoundary == pc = "returned" \/ (pc = "crawl" /\ unyielded = {})

\* C20: at every wave boundary and at return the identifiers with a record
\* in results are exactly the identifiers in visited.
C20_ResultsMatchVisited == WaveBoundary => ResultUrls = visited

\* A wave with a success and a failure has been consumed whole, after an
\* earlier wave.
C20_Witness ==
    /\ pc = "crawl"
    /\ unyielded = {}
    /\ prev # <<>>
    /\ \E i, j \in 1..Len(futures) :
          futures[i].st = "ok" /\ futures[j].st = "raised"

-----------------------------------------------------------------------------
(* C17 *)

\* A step of a worker: a future of the wave that had not finished starts
\* running crawl_one_class, or its call returns or raises.
WorkerStep ==
    \E i \in FutIdx :
        /\ i <= Len(futures')
        /\ futures[i].st \in {"queued", "running"}
        /\ futures'[i].st # futures[i].st

\* Nothing is taken out of visited or results.
NoLostUpdate ==
    /\ visited \subseteq visited'
    /\ Len(results) <= Len(results')
    /\ SubSeq(results', 1, Len(results)) = results

\* C17: a worker running crawl_one_class leaves visited, results and
\* to_crawl as they are, and no step loses an entry of visited or results:
\* they are written by the coordinating loop alone.
C17_WorkersLeaveSharedState ==
    [][/\ WorkerStep => UNCHANGED <<visited, results, to_crawl>>
       /\ NoLostUpdate]_vars

\* In one wave the loop has recorded one page while a second worker has
\* returned and waits to be consumed and a third is still running.
C17_Witness ==
    \E i, j, k \in FutIdx :
        /\ i \notin unyielded /\ futures[i].st = "ok"
        /\ j \in unyielded /\ futures[j].st = "ok"
        /\ k \in unyielded /\ futures[k].st = "running"
        /\ futures[i].url \in visited

-----------------------------------------------------------------------------
(* C18 *)

\* Future i of a wave wider than the pool waits for a worker.
Waits(i) ==
    /\ Len(futures) > MaxWorkers
    /\ i \in FutIdx
    /\ futures[i].st = "queued"

\* Future i of the wave has been fetched and the wave has not ended.
FetchedInWave(i) ==
    /\ Len(futures) > MaxWorkers
    /\ i \in FutIdx
    /\ Finished(i)

\* C18: at most 8 calls of crawl_one_class run at a time; in a wave of
\* more than 8 identifiers every identifier that waits for a worker is
\* fetched before the wave ends, and the wave ends with every identifier
\* fetched.
C18_PoolLimit ==
    /\ [](RunningCount <= MaxWorkers)
    /\ [](pc = "crawl" /\ unyielded = {} => \A i \in FutIdx : Finished(i))
    /\ \A i \in 1..PoolWidth : Waits(i) ~> FetchedInWave(i)

\* A wave of more than 8 identifiers with all 8 workers busy and the last
\* identifier waiting.
C18_Witness ==
    /\ Len(futures) > MaxWorkers
    /\ RunningCount = MaxWorkers
    /\ futures[Len(futures)].st = "queued"


====
